---- MODULE Spec2Model ----
(***************************************************************************)
(* ColorConnect (src/colorconnect/src/App.tsx): the resident directory,    *)
(* its filter/sort pipeline, the engagement counts, the message threads    *)
(* and the three localStorage slots.                                       *)
(*                                                                         *)
(* JavaScript strings that the code inspects (names, bios, the query, the  *)
(* form fields) are sequences of one-character strings; strings the code   *)
(* only stores and compares (ids, message texts) are TLA+ strings.         *)
(***************************************************************************)
EXTENDS Integers, Sequences, FiniteSets, TLC

\* ------------------------------------------------------------------ bounds
\* Largest number of residents with a generated id in the directory at once.
MaxAdded == 1
\* Largest number of messages held by all threads together.
MaxMsgs == 3
\* Largest clock value (Date.now()) of a run.
MaxNow == 1
\* Largest directory found in localStorage when the filters are explored.
MaxStored == 3
\* Telemetry ticks of a run.
MaxTicks == 2
\* Step counts above which no further steps are drawn.
MaxSteps == 20000

\* ----------------------------------------------------------------- strings
UpperCase == <<"A","B","C","D","E","F","G","H","I","J","K","L","M",
               "N","O","P","Q","R","S","T","U","V","W","X","Y","Z">>
LowerCase == <<"a","b","c","d","e","f","g","h","i","j","k","l","m",
               "n","o","p","q","r","s","t","u","v","w","x","y","z">>

Range(s) == {s[i] : i \in DOMAIN s}

\* The characters of the model's strings.
Alphabet ==
  Range(UpperCase) \cup Range(LowerCase)
    \cup {" ", ",", ".", "\t", "\n", "@", "1", "2", "3"}

\* String.prototype.toLowerCase, character by character.
LowerOf ==
  [c \in Alphabet |->
     IF \E i \in DOMAIN UpperCase : UpperCase[i] = c
     THEN LowerCase[CHOOSE i \in DOMAIN UpperCase : UpperCase[i] = c]
     ELSE c]

ToLowerChar(c) == LowerOf[c]

\* String.prototype.toLowerCase.
ToLowerCase(s) == [i \in DOMAIN s |-> ToLowerChar(s[i])]

\* The white space String.prototype.trim removes.
IsSpace(c) == c \in {" ", "\t", "\n"}

\* String.prototype.trim: drop leading and trailing white space.
Trim(s) ==
  LET ink == {i \in DOMAIN s : ~IsSpace(s[i])}
  IN IF ink = {} THEN <<>>
     ELSE LET lo == CHOOSE i \in ink : \A j \in ink : i <= j
              hi == CHOOSE i \in ink : \A j \in ink : j <= i
          IN SubSeq(s, lo, hi)

\* String.prototype.includes: q occurs in s as a contiguous substring.
Includes(s, q) ==
  \E i \in 0..(Len(s) - Len(q)) : SubSeq(s, i + 1, i + Len(q)) = q

\* Collation order of String.prototype.localeCompare (root collation):
\* white space, then punctuation, then letters; the primary weight of a
\* letter ignores its case.
CollationOrder == <<" ", ",", ".">> \o LowerCase

PrimaryWeightOf ==
  [c \in Alphabet |->
     IF \E i \in DOMAIN CollationOrder : CollationOrder[i] = LowerOf[c]
     THEN CHOOSE i \in DOMAIN CollationOrder : CollationOrder[i] = LowerOf[c]
     ELSE 0]

PrimaryWeight(c) == PrimaryWeightOf[c]

\* Tertiary weight: at equal letters, lower case sorts before upper case.
TertiaryWeight(c) == IF c \in Range(UpperCase) THEN 1 ELSE 0

\* Lexicographic comparison of two weight sequences: -1, 0 or 1.
RECURSIVE CompareWeights(_, _)
CompareWeights(u, v) ==
  IF u = <<>> /\ v = <<>> THEN 0
  ELSE IF u = <<>> THEN -1
  ELSE IF v = <<>> THEN 1
  ELSE IF Head(u) < Head(v) THEN -1
  ELSE IF Head(u) > Head(v) THEN 1
  ELSE CompareWeights(Tail(u), Tail(v))

\* a.localeCompare(b): primary weights decide; case breaks primary ties.
LocaleCompare(a, b) ==
  LET p == CompareWeights([i \in DOMAIN a |-> PrimaryWeight(a[i])],
                          [i \in DOMAIN b |-> PrimaryWeight(b[i])])
  IN IF p # 0 THEN p
     ELSE CompareWeights([i \in DOMAIN a |-> TertiaryWeight(a[i])],
                         [i \in DOMAIN b |-> TertiaryWeight(b[i])])

\* --------------------------------------------------------------- residents
MOCK_RESIDENTS ==
  << [id |-> "1", name |-> <<"C","a","t","h","y"," ","M",".">>,
      bio |-> <<"P","i","c","k","l","e","b","a","l","l",","," ","g","a","r","d","e","n","i","n","g",","," ","m","o","r","n","i","n","g"," ","w","a","l","k","s",".">>,
      newResident |-> TRUE, green |-> TRUE],
     [id |-> "2", name |-> <<"R","o","n"," ","H",".">>,
      bio |-> <<"C","h","e","s","s"," ","c","l","u","b",","," ","w","o","o","d","w","o","r","k","i","n","g",","," ","c","l","a","s","s","i","c"," ","r","o","c","k",".">>,
      newResident |-> FALSE, green |-> FALSE],
     [id |-> "3", name |-> <<"I","r","e","n","e"," ","M",".">>,
      bio |-> <<"B","i","b","l","e"," ","s","t","u","d","y",","," ","q","u","i","l","t","i","n","g",","," ","t","e","a"," ","s","o","c","i","a","l","s",".">>,
      newResident |-> TRUE, green |-> TRUE],
     [id |-> "4", name |-> <<"L","u","i","s"," ","P",".">>,
      bio |-> <<"C","y","c","l","i","n","g",","," ","t","r","a","v","e","l"," ","s","t","o","r","i","e","s",","," ","c","o","f","f","e","e"," ","c","h","a","t","s",".">>,
      newResident |-> FALSE, green |-> TRUE],
     [id |-> "5", name |-> <<"B","e","v"," ","K",".">>,
      bio |-> <<"B","o","o","k"," ","c","l","u","b",","," ","b","i","r","d","i","n","g",","," ","v","o","l","u","n","t","e","e","r"," ","e","v","e","n","t","s",".">>,
      newResident |-> FALSE, green |-> FALSE],
     [id |-> "6", name |-> <<"S","a","m","i","r"," ","A",".">>,
      bio |-> <<"P","h","o","t","o","g","r","a","p","h","y",","," ","t","e","c","h"," ","h","e","l","p",","," ","d","o","c","u","m","e","n","t","a","r","i","e","s",".">>,
      newResident |-> FALSE, green |-> TRUE],
     [id |-> "7", name |-> <<"A","l","i","c","e"," ","T",".">>,
      bio |-> <<"C","a","r","d","s"," ","n","i","g","h","t",","," ","s","c","r","a","p","b","o","o","k","i","n","g",","," ","b","a","k","i","n","g",".">>,
      newResident |-> TRUE, green |-> FALSE],
     [id |-> "8", name |-> <<"G","e","o","r","g","e"," ","W",".">>,
      bio |-> <<"F","i","s","h","i","n","g",","," ","h","a","n","d","y","m","a","n"," ","t","i","p","s",","," ","h","i","s","t","o","r","y",".">>,
      newResident |-> FALSE, green |-> FALSE],
     [id |-> "9", name |-> <<"N","i","n","a"," ","R",".">>,
      bio |-> <<"Y","o","g","a",","," ","f","a","r","m","e","r","s"," ","m","a","r","k","e","t",","," ","p","i","a","n","o",".">>,
      newResident |-> FALSE, green |-> TRUE],
     [id |-> "10", name |-> <<"H","a","r","o","l","d"," ","J",".">>,
      bio |-> <<"M","o","d","e","l"," ","t","r","a","i","n","s",","," ","t","r","i","v","i","a",","," ","B","B","Q","s",".">>,
      newResident |-> FALSE, green |-> FALSE],
     [id |-> "11", name |-> <<"P","a","t"," ","S",".">>,
      bio |-> <<"W","a","l","k","i","n","g"," ","g","r","o","u","p",","," ","c","i","n","e","m","a",","," ","p","u","z","z","l","e","s",".">>,
      newResident |-> TRUE, green |-> TRUE],
     [id |-> "12", name |-> <<"K","i","m"," ","F",".">>,
      bio |-> <<"A","r","t"," ","c","l","a","s","s",","," ","m","u","s","e","u","m","s",","," ","b","r","u","n","c","h",".">>,
      newResident |-> FALSE, green |-> FALSE] >>

\* ------------------------------------------------------ arrays and sorting
\* Array.prototype.filter is SelectSeq: the kept elements in their order.

\* The comparator without its second key.
CompareResidents_NoNewFlag(a, b) ==
  IF a.green # b.green THEN (IF a.green THEN -1 ELSE 1)
  ELSE LocaleCompare(a.name, b.name)

\* The comparator of the directory: green first, then new residents, then
\* name.  Negative: a before b.
CompareResidents(a, b) ==
  IF a.green # b.green THEN (IF a.green THEN -1 ELSE 1)
  ELSE IF a.newResident # b.newResident THEN (IF a.newResident THEN -1 ELSE 1)
  ELSE LocaleCompare(a.name, b.name)

\* An insertion that also passes the elements that compare equal to x.
RECURSIVE InsertSorted_Unstable(_, _)
InsertSorted_Unstable(sorted, x) ==
  IF sorted = <<>> THEN <<x>>
  ELSE LET last == sorted[Len(sorted)]
       IN IF CompareResidents(last, x) >= 0
          THEN Append(InsertSorted_Unstable(SubSeq(sorted, 1, Len(sorted) - 1), x), last)
          ELSE Append(sorted, x)

\* One insertion of a stable sort: x goes behind every element that does
\* not compare greater than x.
RECURSIVE InsertSorted(_, _)
InsertSorted(sorted, x) ==
  IF sorted = <<>> THEN <<x>>
  ELSE LET last == sorted[Len(sorted)]
       IN IF CompareResidents(last, x) > 0
          THEN Append(InsertSorted(SubSeq(sorted, 1, Len(sorted) - 1), x), last)
          ELSE Append(sorted, x)

\* Array.prototype.sort with the comparator above (a stable sort).
RECURSIVE ArraySort(_)
ArraySort(arr) ==
  IF arr = <<>> THEN <<>>
  ELSE InsertSorted(ArraySort(SubSeq(arr, 1, Len(arr) - 1)), arr[Len(arr)])

\* ------------------------------------------------------- derived (useMemo)
\* openCount with the viewer counted in.
OpenCountOf_PlusSelf(list) == Len(SelectSeq(list, LAMBDA p : p.green)) + 1

\* openCount: people.filter((p) => p.green).length
OpenCountOf(list) == Len(SelectSeq(list, LAMBDA p : p.green))

\* newCount that counts the green flag.
NewCountOf_CountsGreen(list) == Len(SelectSeq(list, LAMBDA p : p.green))

\* newCount: people.filter((p) => p.newResident).length
NewCountOf(list) == Len(SelectSeq(list, LAMBDA p : p.newResident))

\* q without the trim.
NormQuery_NoTrim(qry) == ToLowerCase(qry)

\* q of the filtered memo: query.trim().toLowerCase()
NormQuery(qry) == ToLowerCase(Trim(qry))

\* The third filter looking at the name only.
QueryKeeps_NameOnly(p, q) ==
  IF q # <<>> THEN Includes(ToLowerCase(p.name), q) ELSE TRUE

\* The third filter of the memo: q ? name or bio includes q : true
QueryKeeps(p, q) ==
  IF q # <<>>
  THEN Includes(ToLowerCase(p.name), q) \/ Includes(ToLowerCase(p.bio), q)
  ELSE TRUE

\* The memo sorting the people array itself (no copy).
FilteredEval_SortsInPlace(list, qry, gOnly, nOnly) ==
  LET q  == NormQuery(qry)
      a0 == ArraySort(list)
      a1 == SelectSeq(a0, LAMBDA p : IF gOnly THEN p.green ELSE TRUE)
      a2 == SelectSeq(a1, LAMBDA p : IF nOnly THEN p.newResident ELSE TRUE)
      a3 == SelectSeq(a2, LAMBDA p : QueryKeeps(p, q))
  IN [ret |-> a3, people |-> a0, query |-> qry,
      greenOnly |-> gOnly, newOnly |-> nOnly]

\* The filtered memo.  filter and slice return new arrays and sort works in
\* place on the copy, so the evaluation's receiver `list` and the filter
\* state come out as they went in: the record says what each is afterwards.
FilteredEval(list, qry, gOnly, nOnly) ==
  LET q  == NormQuery(qry)
      a1 == SelectSeq(list, LAMBDA p : IF gOnly THEN p.green ELSE TRUE)
      a2 == SelectSeq(a1, LAMBDA p : IF nOnly THEN p.newResident ELSE TRUE)
      a3 == SelectSeq(a2, LAMBDA p : QueryKeeps(p, q))
      a4 == a3
  IN [ret |-> ArraySort(a4), people |-> list, query |-> qry,
      greenOnly |-> gOnly, newOnly |-> nOnly]

FilteredOf(list, qry, gOnly, nOnly) == FilteredEval(list, qry, gOnly, nOnly).ret

\* -------------------------------------------------------------------- JSON
\* A JSON text is a sequence of tokens: punctuation, literals, numbers and
\* string literals.  JSON.stringify writes tokens, JSON.parse reads them.
Tok(t) == [t |-> t]
StrTok(s) == [t |-> "string", s |-> s]
NumTok(n) == [t |-> "number", n |-> n]
BoolTok(b) == IF b THEN Tok("true") ELSE Tok("false")

\* Parsed JSON values.
JNull == [k |-> "null"]
JBool(b) == [k |-> "bool", b |-> b]
JNum(n) == [k |-> "num", n |-> n]
JStr(s) == [k |-> "str", s |-> s]
JArr(a) == [k |-> "arr", a |-> a]
JObj(o) == [k |-> "obj", o |-> o]

\* The function with no argument (an object without keys).
EmptyMap == [x \in {} |-> x]

\* A set of strings as a sequence, in a fixed order (the order in which an
\* object's own keys are enumerated).
RECURSIVE KeySeq(_)
KeySeq(S) ==
  IF S = {} THEN <<>>
  ELSE LET x == CHOOSE y \in S : TRUE IN <<x>> \o KeySeq(S \ {x})

\* The texts of seq[1..], separated by commas.
RECURSIVE CommaJoin(_)
CommaJoin(texts) ==
  IF texts = <<>> THEN <<>>
  ELSE IF Len(texts) = 1 THEN texts[1]
  ELSE texts[1] \o <<Tok(",")>> \o CommaJoin(Tail(texts))

\* JSON.stringify of one resident object.
StringifyResident(p) ==
  <<Tok("{"),
    StrTok("id"), Tok(":"), StrTok(p.id), Tok(","),
    StrTok("name"), Tok(":"), StrTok(p.name), Tok(","),
    StrTok("bio"), Tok(":"), StrTok(p.bio), Tok(","),
    StrTok("newResident"), Tok(":"), BoolTok(p.newResident), Tok(","),
    StrTok("green"), Tok(":"), BoolTok(p.green),
    Tok("}")>>

\* JSON.stringify(list) of savePeople.
StringifyPeople(list) ==
  <<Tok("[")>> \o CommaJoin([i \in DOMAIN list |-> StringifyResident(list[i])])
              \o <<Tok("]")>>

\* JSON.stringify(on) of saveMyStatus.
StringifyStatus(on) == <<BoolTok(on)>>

\* JSON.stringify of one message object.
StringifyMessage(m) ==
  <<Tok("{"),
    StrTok("id"), Tok(":"), StrTok(m.id), Tok(","),
    StrTok("fromMe"), Tok(":"), BoolTok(m.fromMe), Tok(","),
    StrTok("text"), Tok(":"), StrTok(m.text), Tok(","),
    StrTok("ts"), Tok(":"), NumTok(m.ts),
    Tok("}")>>

StringifyThread(msgs) ==
  <<Tok("[")>> \o CommaJoin([i \in DOMAIN msgs |-> StringifyMessage(msgs[i])])
              \o <<Tok("]")>>

\* JSON.stringify(t) of saveThreads.
StringifyThreads(t) ==
  LET keys == KeySeq(DOMAIN t)
  IN <<Tok("{")>>
     \o CommaJoin([i \in DOMAIN keys |->
                    <<StrTok(keys[i]), Tok(":")>> \o StringifyThread(t[keys[i]])])
     \o <<Tok("}")>>

\* JSON.parse: recursive descent over the tokens.  A result says whether a
\* value was read, the value, and the position behind it.
ParseFail == [ok |-> FALSE, val |-> JNull, next |-> 0]
ParseOk(v, n) == [ok |-> TRUE, val |-> v, next |-> n]
TokAt(toks, i) == IF i \in DOMAIN toks THEN toks[i].t ELSE "eof"

RECURSIVE ParseValue(_, _)
RECURSIVE ParseElements(_, _, _)
RECURSIVE ParseMembers(_, _, _)

ParseElements(toks, i, acc) ==
  LET r == ParseValue(toks, i)
  IN IF ~r.ok THEN ParseFail
     ELSE IF TokAt(toks, r.next) = ","
          THEN ParseElements(toks, r.next + 1, Append(acc, r.val))
     ELSE IF TokAt(toks, r.next) = "]"
          THEN ParseOk(JArr(Append(acc, r.val)), r.next + 1)
     ELSE ParseFail

ParseMembers(toks, i, acc) ==
  IF TokAt(toks, i) # "string" \/ TokAt(toks, i + 1) # ":" THEN ParseFail
  ELSE LET r == ParseValue(toks, i + 2)
           o == (toks[i].s :> r.val) @@ acc
       IN IF ~r.ok THEN ParseFail
          ELSE IF TokAt(toks, r.next) = ","
               THEN ParseMembers(toks, r.next + 1, o)
          ELSE IF TokAt(toks, r.next) = "}"
               THEN ParseOk(JObj(o), r.next + 1)
          ELSE ParseFail

ParseValue(toks, i) ==
  LET t == TokAt(toks, i)
  IN CASE t = "null" -> ParseOk(JNull, i + 1)
       [] t = "true" -> ParseOk(JBool(TRUE), i + 1)
       [] t = "false" -> ParseOk(JBool(FALSE), i + 1)
       [] t = "number" -> ParseOk(JNum(toks[i].n), i + 1)
       [] t = "string" -> ParseOk(JStr(toks[i].s), i + 1)
       [] t = "[" -> IF TokAt(toks, i + 1) = "]"
                     THEN ParseOk(JArr(<<>>), i + 2)
                     ELSE ParseElements(toks, i + 1, <<>>)
       [] t = "{" -> IF TokAt(toks, i + 1) = "}"
                     THEN ParseOk(JObj(EmptyMap), i + 2)
                     ELSE ParseMembers(toks, i + 1, EmptyMap)
       [] OTHER -> ParseFail

\* JSON.parse(raw): a value when the whole text is one JSON value, a
\* SyntaxError (ok = FALSE) otherwise.
JsonParse(raw) ==
  LET r == ParseValue(raw, 1)
  IN IF r.ok /\ r.next = Len(raw) + 1 THEN r ELSE ParseFail

\* The parsed value seen through its TypeScript type (a cast, no run-time
\* check): Resident[], Message[] and ThreadMap.
AsResident(j) ==
  [id |-> j.o["id"].s, name |-> j.o["name"].s, bio |-> j.o["bio"].s,
   newResident |-> j.o["newResident"].b, green |-> j.o["green"].b]
AsPeople(j) == [i \in DOMAIN j.a |-> AsResident(j.a[i])]
AsMessage(j) ==
  [id |-> j.o["id"].s, fromMe |-> j.o["fromMe"].b, text |-> j.o["text"].s,
   ts |-> j.o["ts"].n]
AsThread(j) == [i \in DOMAIN j.a |-> AsMessage(j.a[i])]
AsThreadMap(j) == [r \in DOMAIN j.o |-> AsThread(j.o[r])]

\* ------------------------------------------------------------ localStorage
\* A slot of localStorage: absent (getItem returns null) or a text.
AbsentSlot == [present |-> FALSE, text |-> <<>>]
TextSlot(text) == [present |-> TRUE, text |-> text]

\* What localStorage does when it is used: "ok", "full" (setItem throws) or
\* "denied" (getItem and setItem throw).
StorageModes == {"ok", "full", "denied"}

\* loadThreads
LoadThreads(store, mode) ==
  IF mode = "denied" THEN EmptyMap
  ELSE LET raw == store.threads
       IN IF raw.present /\ raw.text # <<>>
          THEN LET r == JsonParse(raw.text)
               IN IF r.ok THEN AsThreadMap(r.val) ELSE EmptyMap
          ELSE EmptyMap

\* A saveThreads that leaves the slot as it is.
SaveThreads_WritesNothing(store, t, mode) == store

\* saveThreads
SaveThreads(store, t, mode) ==
  IF mode = "ok"
  THEN [store EXCEPT !.threads = TextSlot(StringifyThreads(t))]
  ELSE store

\* loadMyStatus taking any stored text for "on".
LoadMyStatus_RawTruthy(store, mode) ==
  IF mode = "denied" THEN TRUE
  ELSE LET raw == store.mystatus
       IN IF raw.present /\ raw.text # <<>> THEN TRUE ELSE TRUE

\* loadMyStatus
LoadMyStatus(store, mode) ==
  IF mode = "denied" THEN TRUE
  ELSE LET raw == store.mystatus
       IN IF raw.present /\ raw.text # <<>>
          THEN LET r == JsonParse(raw.text)
               IN IF r.ok THEN r.val = JBool(TRUE) ELSE TRUE
          ELSE TRUE

\* saveMyStatus
SaveMyStatus(store, on, mode) ==
  IF mode = "ok"
  THEN [store EXCEPT !.mystatus = TextSlot(StringifyStatus(on))]
  ELSE store

\* loadPeople whose catch branch returns an empty directory.
LoadPeople_EmptyOnFailure(store, mode) ==
  IF mode = "denied" THEN <<>>
  ELSE LET raw == store.people
       IN IF raw.present /\ raw.text # <<>>
          THEN LET r == JsonParse(raw.text)
               IN IF r.ok THEN AsPeople(r.val) ELSE <<>>
          ELSE MOCK_RESIDENTS

\* loadPeople
LoadPeople(store, mode) ==
  IF mode = "denied" THEN MOCK_RESIDENTS
  ELSE LET raw == store.people
       IN IF raw.present /\ raw.text # <<>>
          THEN LET r == JsonParse(raw.text)
               IN IF r.ok THEN AsPeople(r.val) ELSE MOCK_RESIDENTS
          ELSE MOCK_RESIDENTS

\* loadPeople hands out the MOCK_RESIDENTS array itself (not a copy).
LoadsSeed(store, mode) ==
  \/ mode = "denied"
  \/ ~(store.people.present /\ store.people.text # <<>>)
  \/ ~JsonParse(store.people.text).ok

\* savePeople
SavePeople(store, list, mode) ==
  IF mode = "ok"
  THEN [store EXCEPT !.people = TextSlot(StringifyPeople(list))]
  ELSE store

\* A share that is not scaled back to a hundred.
Pct_PerMille(count, total) ==
  IF total = 0 THEN 0 ELSE (2000 * count + total) \div (2 * total)

\* total ? Math.round((count / total) * 100) : 0.  Math.round rounds a half
\* up.
Pct(count, total) ==
  IF total = 0 THEN 0 ELSE (200 * count + total) \div (2 * total)

\* ------------------------------------------------------------ admin portal
\* The credentials authenticate compares with, also the initial content of
\* the two fields.
AdminEmail == <<"a","d","m","i","n","@","r","a","d","i","a","n","c","e",".","c","o","m">>
AdminPassword == <<"c","o","n","n","e","c","t","1","2","3">>
\* setError("Demo credentials are admin@radiance.com / connect123")
DemoError == "Demo credentials are admin@radiance.com / connect123"

\* The README's "Demo login accounts".
ReadmeAccounts ==
  { [email |-> <<"r","e","s","i","d","e","n","t","@","d","e","m","o",".","c","o","m">>, password |-> <<"d","e","m","o","1","2","3">>],
    [email |-> <<"r","e","s","i","d","e","n","t","2","@","d","e","m","o",".","c","o","m">>, password |-> <<"d","e","m","o","1","2","3">>],
    [email |-> <<"d","i","r","e","c","t","o","r","@","d","e","m","o",".","c","o","m">>, password |-> <<"d","i","r","e","c","t","o","r","1","2","3">>] }

\* ------------------------------------------------------------------ inputs
\* The four values of Math.random(), in hundredths (0 the least, 99 near the
\* top of [0, 1)), an update of a watch draws, for the heart rate, the
\* SpO2, the steps and the battery.  A tick draws low vitals with many steps
\* and a large drain, or high vitals with no steps and no drain; a refresh
\* draws high vitals with many steps and a large drain.
TickDraws ==
  { [hr |-> 0, sp |-> 0, st |-> 99, bt |-> 99],
    [hr |-> 99, sp |-> 99, st |-> 0, bt |-> 0] }
RefreshDraws ==
  { [hr |-> 99, sp |-> 99, st |-> 99, bt |-> 99] }
\* Texts typed into the "Email" and "Password" fields of the admin portal.
EmailInputs ==
  {a.email : a \in ReadmeAccounts}
    \cup { AdminEmail, <<" ","A","d","m","i","n","@","R","a","d","i","a","n","c","e",".","C","O","M"," ">>, <<"a","d","m","i","n","@","r","a","d","i","a","n","c","e",".","c","o">> }
PasswordInputs ==
  {a.password : a \in ReadmeAccounts}
    \cup { AdminPassword, <<"C","o","n","n","e","c","t","1","2","3">>, <<"c","o","n","n","e","c","t","1","2","3"," ">> }
\* Texts typed into the search box.
Queries == { <<>>, <<" ">>, <<" ","A","L">> }
\* Texts typed into the "Name" and "Interests" fields of the admin form.
NameInputs == { <<>>, <<" ","A","l">> }
BioInputs == { <<>>, <<"t","e","a"," ">> }
\* A text of white space alone.
BlankInputs == { <<" ", "\t">> }
\* Ids Math.random().toString(36).slice(2) hands to addResident.
NewIds == {"a", "b"}
\* An id of the seed roster that Math.random() can yield as well:
\* (0.25).toString(36) is "0.9", and slice(2) of it is "9".
SeedLikeIds == {"9"}
\* The ids addResident draws in the runs that are about ids: one that no
\* seed resident has and one that a seed resident has.
DrawnIds == {"a"} \cup SeedLikeIds
\* Residents whose card or row the user clicks.
ClickIds == {"2"} \cup NewIds
\* Message texts and the ids Math.random() hands to messages.
Texts == {"hi"}
MsgIds == {"m1", "m2"}

\* A directory left in localStorage by an earlier session: two residents
\* added by the admin form, with equal names and flags.
PrevRoster ==
  << [id |-> "a", name |-> <<"A","l">>, bio |-> <<"t","e","a">>,
      newResident |-> FALSE, green |-> TRUE],
     [id |-> "b", name |-> <<"A","l">>, bio |-> <<"a","r","t">>,
      newResident |-> FALSE, green |-> TRUE] >>
PrevThreads == ("a" :> <<[id |-> "m1", fromMe |-> TRUE, text |-> "hi", ts |-> 0]>>)
\* A text JSON.parse rejects.
Malformed == <<Tok("["), Tok("{")>>

\* Residents of directories saved by earlier sessions: equal names with
\* equal and with different flags, names that differ in case only, a bio
\* that matches where the name does not.
StoredResidents ==
  { [id |-> "a", name |-> <<"A","l">>, bio |-> <<"t","e","a">>,
     newResident |-> FALSE, green |-> TRUE],
    [id |-> "b", name |-> <<"A","l">>, bio |-> <<"a","r","t">>,
     newResident |-> FALSE, green |-> TRUE],
    [id |-> "c", name |-> <<"a","l">>, bio |-> <<"t","e","a">>,
     newResident |-> FALSE, green |-> TRUE],
    [id |-> "d", name |-> <<"B","o">>, bio |-> <<"S","a","l","s","a">>,
     newResident |-> TRUE, green |-> FALSE],
    [id |-> "e", name |-> <<"C","y">>, bio |-> <<"t","e","a">>,
     newResident |-> TRUE, green |-> TRUE] }

\* Every directory of at most MaxStored of them.
StoredRosters == UNION {[1..k -> StoredResidents] : k \in 0..MaxStored}

\* Storages that hold such a directory, and the storage of a first visit.
FilterStores ==
  { [people |-> TextSlot(StringifyPeople(r)),
     mystatus |-> TextSlot(StringifyStatus(FALSE)),
     threads |-> TextSlot(StringifyThreads(PrevThreads))] : r \in StoredRosters }
  \cup { [people |-> AbsentSlot, mystatus |-> AbsentSlot, threads |-> AbsentSlot] }

\* The storage of a first visit and the storage an earlier session left.
VisitStores ==
  { [people |-> AbsentSlot, mystatus |-> AbsentSlot, threads |-> AbsentSlot],
    [people |-> TextSlot(StringifyPeople(PrevRoster)),
     mystatus |-> TextSlot(StringifyStatus(FALSE)),
     threads |-> TextSlot(StringifyThreads(PrevThreads))] }

\* Texts that decode to a value of another shape than the loader's type:
\* null, a number, an object without keys.
OtherShapes == { <<Tok("null")>>, <<NumTok(5)>>, <<Tok("{"), Tok("}")>> }

\* Storages whose slots hold anything: nothing, text that does not decode,
\* text of another shape, or what an earlier session saved.
StartupStores ==
  [people : {AbsentSlot, TextSlot(Malformed), TextSlot(StringifyPeople(PrevRoster))}
              \cup {TextSlot(x) : x \in OtherShapes},
   mystatus : {AbsentSlot, TextSlot(StringifyStatus(FALSE))}
              \cup {TextSlot(x) : x \in OtherShapes},
   threads : {AbsentSlot, TextSlot(<<Tok("null")>>),
              TextSlot(StringifyThreads(PrevThreads))}]

\* The storage of a returning visitor, with and without a thread.
SessionStores ==
  { [people |-> TextSlot(StringifyPeople(PrevRoster)),
     mystatus |-> TextSlot(StringifyStatus(FALSE)),
     threads |-> TextSlot(StringifyThreads(PrevThreads))],
    [people |-> TextSlot(StringifyPeople(PrevRoster)),
     mystatus |-> TextSlot(StringifyStatus(TRUE)),
     threads |-> TextSlot(StringifyThreads(EmptyMap))] }

\* What localStorage may hold when the page is opened.
InitialStores ==
  VisitStores \cup
  { [people |-> TextSlot(Malformed), mystatus |-> TextSlot(Malformed),
     threads |-> TextSlot(Malformed)],
    [people |-> TextSlot(<<>>), mystatus |-> TextSlot(<<>>),
     threads |-> TextSlot(<<>>)],
    [people |-> TextSlot(StringifyPeople(<<>>)),
     mystatus |-> TextSlot(StringifyStatus(TRUE)),
     threads |-> TextSlot(StringifyThreads(EmptyMap))] }

\* --------------------------------------------------------------- telemetry
\* Heart rate and SpO2 are kept in tenths, the battery in ten-thousandths
\* of a percent, times in seconds, and a value of Math.random() in
\* hundredths.
VitalUnit == 10
BatteryUnit == 10000
\* Date.now() when the module is loaded and the page first renders.
LoadTime == 100000
WatchIds == {"1", "2", "3", "4", "5", "6", "7", "8", "9", "10", "11", "12"}

MOCK_HEALTH ==
  "1" :> [heartRate |-> 680, spo2 |-> 980, steps |-> 3200, battery |-> 82 * BatteryUnit,
          lastSync |-> LoadTime - 120, watchOnline |-> TRUE] @@
  "2" :> [heartRate |-> 740, spo2 |-> 970, steps |-> 2100, battery |-> 56 * BatteryUnit,
          lastSync |-> LoadTime - 480, watchOnline |-> TRUE] @@
  "3" :> [heartRate |-> 630, spo2 |-> 990, steps |-> 4500, battery |-> 91 * BatteryUnit,
          lastSync |-> LoadTime - 60, watchOnline |-> TRUE] @@
  "4" :> [heartRate |-> 700, spo2 |-> 980, steps |-> 5200, battery |-> 67 * BatteryUnit,
          lastSync |-> LoadTime - 180, watchOnline |-> TRUE] @@
  "5" :> [heartRate |-> 820, spo2 |-> 950, steps |-> 1200, battery |-> 44 * BatteryUnit,
          lastSync |-> LoadTime - 1800, watchOnline |-> FALSE] @@
  "6" :> [heartRate |-> 610, spo2 |-> 990, steps |-> 6400, battery |-> 73 * BatteryUnit,
          lastSync |-> LoadTime - 300, watchOnline |-> TRUE] @@
  "7" :> [heartRate |-> 770, spo2 |-> 960, steps |-> 2800, battery |-> 59 * BatteryUnit,
          lastSync |-> LoadTime - 420, watchOnline |-> TRUE] @@
  "8" :> [heartRate |-> 710, spo2 |-> 980, steps |-> 1900, battery |-> 38 * BatteryUnit,
          lastSync |-> LoadTime - 720, watchOnline |-> FALSE] @@
  "9" :> [heartRate |-> 650, spo2 |-> 990, steps |-> 7200, battery |-> 84 * BatteryUnit,
          lastSync |-> LoadTime - 90, watchOnline |-> TRUE] @@
  "10" :> [heartRate |-> 880, spo2 |-> 950, steps |-> 900, battery |-> 33 * BatteryUnit,
          lastSync |-> LoadTime - 2400, watchOnline |-> FALSE] @@
  "11" :> [heartRate |-> 690, spo2 |-> 980, steps |-> 5400, battery |-> 79 * BatteryUnit,
          lastSync |-> LoadTime - 240, watchOnline |-> TRUE] @@
  "12" :> [heartRate |-> 720, spo2 |-> 970, steps |-> 2500, battery |-> 62 * BatteryUnit,
          lastSync |-> LoadTime - 360, watchOnline |-> TRUE]

Min(a, b) == IF a <= b THEN a ELSE b
Max(a, b) == IF a >= b THEN a ELSE b

\* Math.round(num / den) for den > 0: the nearest integer, a half goes up.
RoundHalfUp(num, den) == (2 * num + den) \div (2 * den)

\* drift of the interval callback, for Math.random() = r / 100 and a delta
\* of deltaTenths / 10:
\*   change = Math.round((Math.random() * delta * 2 - delta) * 10) / 10
\*   Math.min(max, Math.max(min, val + change))
Drift(val, r, deltaTenths, min, max) ==
  LET change == RoundHalfUp(2 * r * deltaTenths - 100 * deltaTenths, 100)
  IN Min(max, Max(min, val + change))

\* A tick that lets a watch with an empty battery stay online.
TickSnapshot_StaysOnline(h, d, t) ==
  [heartRate |-> Drift(h.heartRate, d.hr, 20, 58 * VitalUnit, 95 * VitalUnit),
   spo2 |-> Drift(h.spo2, d.sp, 5, 94 * VitalUnit, 100 * VitalUnit),
   steps |-> h.steps + (IF h.watchOnline THEN (d.st * 120) \div 100 ELSE 0),
   battery |-> Max(5 * BatteryUnit,
                   h.battery - (IF h.watchOnline THEN 80 * d.bt ELSE 30 * d.bt)),
   lastSync |-> IF h.watchOnline THEN t ELSE h.lastSync + 60,
   watchOnline |-> h.watchOnline]

\* A tick whose drift lets the heart rate run free.
TickSnapshot_NoClamp(h, d, t) ==
  [heartRate |-> h.heartRate + RoundHalfUp(40 * d.hr - 2000, 100),
   spo2 |-> Drift(h.spo2, d.sp, 5, 94 * VitalUnit, 100 * VitalUnit),
   steps |-> h.steps + (IF h.watchOnline THEN (d.st * 120) \div 100 ELSE 0),
   battery |-> Max(5 * BatteryUnit,
                   h.battery - (IF h.watchOnline THEN 80 * d.bt ELSE 30 * d.bt)),
   lastSync |-> IF h.watchOnline THEN t ELSE h.lastSync + 60,
   watchOnline |-> IF h.battery > 8 * BatteryUnit THEN h.watchOnline ELSE FALSE]

\* The entry the interval callback computes from the entry h at time t,
\* with the four values d of Math.random().
TickSnapshot(h, d, t) ==
  [heartRate |-> Drift(h.heartRate, d.hr, 20, 58 * VitalUnit, 95 * VitalUnit),
   spo2 |-> Drift(h.spo2, d.sp, 5, 94 * VitalUnit, 100 * VitalUnit),
   steps |-> h.steps + (IF h.watchOnline THEN (d.st * 120) \div 100 ELSE 0),
   battery |-> Max(5 * BatteryUnit,
                   h.battery - (IF h.watchOnline THEN 80 * d.bt ELSE 30 * d.bt)),
   lastSync |-> IF h.watchOnline THEN t ELSE h.lastSync + 60,
   watchOnline |-> IF h.battery > 8 * BatteryUnit THEN h.watchOnline ELSE FALSE]

\* The entry refreshHealth computes from the entry h at time t.
RefreshSnapshot(h, d, t) ==
  [heartRate |->
     VitalUnit * Min(96, Max(58, RoundHalfUp(10 * h.heartRate + 6 * d.hr - 300, 100))),
   spo2 |->
     VitalUnit * Min(100, Max(95, RoundHalfUp(10 * h.spo2 + 2 * d.sp - 100, 100))),
   steps |-> h.steps + (IF h.watchOnline THEN (d.st * 200) \div 100 ELSE 0),
   battery |-> Max(5 * BatteryUnit, h.battery - 150 * d.bt),
   lastSync |-> t,
   watchOnline |-> h.watchOnline]

\* formatSyncTime at time t: the minutes shown ("Just now" is 0), for a
\* lastSync that is not 0.
SyncAgeShown(ts, t) == RoundHalfUp(Max(0, t - ts), 60)

\* ------------------------------------------------------------------- state
VARIABLES
  people,        \* Resident[]: the directory
  seedRef,       \* people is the MOCK_RESIDENTS array itself
  query,         \* search text
  greenOnly,     \* "Show only green"
  newOnly,       \* "Show new residents"
  active,        \* <<>> or <<p>>: the resident whose drawer is open
  myGreen,       \* the viewer's own wristband
  adminMode,     \* "Admin controls" switch
  newName,       \* admin form: name
  newBio,        \* admin form: interests
  newGreen,      \* admin form: "Start as green"
  newFlaggedNew, \* admin form: "Mark as new resident"
  threads,       \* ThreadMap: resident id -> Message[]
  replied,       \* repliedRef.current: ids whose auto-reply was scheduled
  timers,        \* ids with a pending auto-reply timeout
  now,           \* Date.now()
  ls,            \* localStorage: the three slots
  lsMode,        \* how localStorage answers
  openCount,     \* useMemo: open residents
  newCount,      \* useMemo: new residents
  filtered,      \* useMemo: the displayed list
  crashed,       \* a render threw: React has unmounted the page
  \* the page of the second ColorConnectPrototype of the file, with the
  \* admin portal:
  adminOpen,     \* the admin portal is open
  email,         \* AdminPanel: the "Email" field
  password,      \* AdminPanel: the "Password" field
  error,         \* AdminPanel: the message under the fields
  authed,        \* AdminPanel: signed in
  health,        \* Record<string, HealthSnapshot>: the watches' telemetry
  wallClock      \* Date.now() of that page, in seconds

vars == <<people, seedRef, query, greenOnly, newOnly, active, myGreen,
          adminMode, newName, newBio, newGreen, newFlaggedNew, threads,
          replied, timers, now, ls, lsMode, openCount, newCount, filtered,
          crashed, adminOpen, email, password, error, authed, health,
          wallClock>>

\* The variables of the first page of the file.
directoryVars == <<people, seedRef, query, greenOnly, newOnly, active, myGreen,
                   adminMode, newName, newBio, newGreen, newFlaggedNew, threads,
                   replied, timers, now, ls, lsMode, openCount, newCount,
                   filtered, crashed>>
loginVars == <<adminOpen, email, password, error, authed>>
watchVars == <<health, wallClock>>
\* The variables of the second page of the file.
portalVars == <<loginVars, watchVars>>

filterVars == <<query, greenOnly, newOnly>>
formVars == <<newName, newBio, newGreen, newFlaggedNew>>
msgVars == <<threads, replied, timers>>
envVars == <<now, lsMode>>

Ids(list) == {list[i].id : i \in DOMAIN list}
\* const totalResidents = people.length, and the two shares computed from it
\* in every render.
totalResidents == Len(people)
greenPct == Pct(openCount, totalResidents)
newPct == Pct(newCount, totalResidents)
TotalMessages(t) ==
  LET RECURSIVE Sum(_)
      Sum(S) == IF S = {} THEN 0
                ELSE LET r == CHOOSE x \in S : TRUE
                     IN Len(t[r]) + Sum(S \ {r})
  IN Sum(DOMAIN t)

\* The thread figures of the dashboard, computed from threads in every
\* render, and the "msgs" cell of a roster row: threads[p.id]?.length || 0.
threadsCount == Cardinality(DOMAIN threads)
totalMessages == TotalMessages(threads)
msgCount(p) == IF p.id \in DOMAIN threads THEN Len(threads[p.id]) ELSE 0

\* What JSON.parse hands to a loader from a slot: ok = FALSE when the
\* loader does not get that far (getItem throws, no text, SyntaxError).
ParsedSlot(slot, mode) ==
  IF mode = "denied" \/ ~slot.present \/ slot.text = <<>> THEN ParseFail
  ELSE JsonParse(slot.text)

\* The first render throws a TypeError: people.filter of openCount is
\* called on a value that is no array (null, a number, an object), or
\* Object.keys of threadsCount is called on null.
MountThrows(st, mode) ==
  LET pj == ParsedSlot(st.people, mode)
      tj == ParsedSlot(st.threads, mode)
  IN \/ pj.ok /\ pj.val.k # "arr"
     \/ tj.ok /\ tj.val.k = "null"

\* The state in which the component mounts from the storage `st`: the
\* useState initialisers, the first render and the three mount effects
\* (saveThreads, savePeople, saveMyStatus).  When the first render throws,
\* nothing is committed: no effect runs and the page stays blank (nothing
\* is shown, nothing is held).
MountState(st, mode) ==
  IF MountThrows(st, mode)
  THEN [people |-> <<>>, seedRef |-> FALSE, myGreen |-> LoadMyStatus(st, mode),
        threads |-> EmptyMap, ls |-> st, openCount |-> 0, newCount |-> 0,
        filtered |-> <<>>, crashed |-> TRUE]
  ELSE
  LET P == LoadPeople(st, mode)
      M == LoadMyStatus(st, mode)
      T == LoadThreads(st, mode)
  IN [people |-> P, seedRef |-> LoadsSeed(st, mode), myGreen |-> M,
      threads |-> T,
      ls |-> SaveMyStatus(SavePeople(SaveThreads(st, T, mode), P, mode), M, mode),
      openCount |-> OpenCountOf(P), newCount |-> NewCountOf(P),
      filtered |-> FilteredOf(P, <<>>, TRUE, FALSE), crashed |-> FALSE]

\* The page is opened on one of the storages `stores`, which answers as one
\* of `modes`.
InitWith(stores, modes) ==
  \E st \in stores, mode \in modes :
    \E m \in {MountState(st, mode)} :
       /\ people = m.people /\ seedRef = m.seedRef
       /\ query = <<>> /\ greenOnly = TRUE /\ newOnly = FALSE
       /\ active = <<>>
       /\ myGreen = m.myGreen
       /\ adminMode = TRUE
       /\ newName = <<>> /\ newBio = <<>> /\ newGreen = TRUE /\ newFlaggedNew = TRUE
       /\ threads = m.threads /\ replied = {} /\ timers = {}
       /\ now = 0
       /\ ls = m.ls /\ lsMode = mode
       /\ openCount = m.openCount /\ newCount = m.newCount
       /\ filtered = m.filtered
       /\ crashed = m.crashed
       /\ adminOpen = TRUE
       /\ email = AdminEmail /\ password = AdminPassword
       /\ error = "" /\ authed = FALSE
       /\ health = MOCK_HEALTH
       /\ wallClock = LoadTime

Init == InitWith(InitialStores, StorageModes)

\* ----------------------------------------------------------------- renders
\* A render whose filtered memo misses its dependencies: the filter state
\* changes and the list stays as it was.
RenderFilter_StaleMemo(q, g, n) ==
  /\ query' = q /\ greenOnly' = g /\ newOnly' = n
  /\ UNCHANGED <<people, seedRef, openCount, newCount, filtered>>

\* The render after a handler that left the directory alone: only the
\* filtered memo can be stale (deps people, query, greenOnly, newOnly).
RenderFilter(q, g, n) ==
  IF <<q, g, n>> = <<query, greenOnly, newOnly>>
  THEN UNCHANGED <<people, seedRef, filterVars, openCount, newCount, filtered>>
  ELSE \E ev \in {FilteredEval(people, q, g, n)} :
         /\ people' = ev.people
         /\ query' = ev.query /\ greenOnly' = ev.greenOnly /\ newOnly' = ev.newOnly
         /\ filtered' = ev.ret
         /\ UNCHANGED <<seedRef, openCount, newCount>>

\* The render after setPeople(P) and the savePeople effect behind it.
RenderPeople(P, isSeed) ==
  \E ev \in {FilteredEval(P, query, greenOnly, newOnly)} :
     /\ people' = ev.people
     /\ seedRef' = isSeed
     /\ query' = ev.query /\ greenOnly' = ev.greenOnly /\ newOnly' = ev.newOnly
     /\ filtered' = ev.ret
     /\ openCount' = OpenCountOf(P)
     /\ newCount' = NewCountOf(P)
     /\ ls' = SavePeople(ls, P, lsMode)

\* ---------------------------------------------------------------- handlers
\* Search box onChange: setQuery(e.target.value)
SetQuery(q) ==
  /\ ~crashed
  /\ q # query
  /\ RenderFilter(q, greenOnly, newOnly)
  /\ UNCHANGED <<portalVars, crashed, active, myGreen, adminMode, formVars, msgVars, envVars, ls>>

\* "Show only green" onChange: setGreenOnly(e.target.checked)
SetGreenOnly ==
  /\ ~crashed
  /\ RenderFilter(query, ~greenOnly, newOnly)
  /\ UNCHANGED <<portalVars, crashed, active, myGreen, adminMode, formVars, msgVars, envVars, ls>>

\* "Show new residents" onChange: setNewOnly(e.target.checked)
SetNewOnly ==
  /\ ~crashed
  /\ RenderFilter(query, greenOnly, ~newOnly)
  /\ UNCHANGED <<portalVars, crashed, active, myGreen, adminMode, formVars, msgVars, envVars, ls>>

\* toggleMyGreen that gives up when the write cannot be made.
ToggleMyGreen_AbortsOnFailure ==
  /\ ~crashed
  /\ lsMode = "ok"
  /\ myGreen' = ~myGreen
  /\ ls' = SaveMyStatus(ls, ~myGreen, lsMode)
  /\ UNCHANGED <<portalVars, crashed, people, seedRef, filterVars, active, adminMode, formVars,
                 msgVars, envVars, openCount, newCount, filtered>>

\* toggleMyGreen and the saveMyStatus effect
ToggleMyGreen ==
  /\ ~crashed
  /\ myGreen' = ~myGreen
  /\ ls' = SaveMyStatus(ls, ~myGreen, lsMode)
  /\ UNCHANGED <<portalVars, crashed, people, seedRef, filterVars, active, adminMode, formVars,
                 msgVars, envVars, openCount, newCount, filtered>>

\* "Admin controls" onChange: setAdminMode(e.target.checked)
SetAdminMode ==
  /\ ~crashed
  /\ adminMode' = ~adminMode
  /\ UNCHANGED <<portalVars, crashed, people, seedRef, filterVars, active, myGreen, formVars,
                 msgVars, envVars, ls, openCount, newCount, filtered>>

\* A toggle that switches the wristband on and never off.
GreenToggled_SetsGreen(list, id) ==
  [i \in DOMAIN list |->
     IF list[i].id = id THEN [list[i] EXCEPT !.green = TRUE]
     ELSE list[i]]

\* (list) => list.map((p) => (p.id === id ? { ...p, green: !p.green } : p))
GreenToggled(list, id) ==
  [i \in DOMAIN list |->
     IF list[i].id = id THEN [list[i] EXCEPT !.green = ~list[i].green]
     ELSE list[i]]

\* (list) => list.map((p) => (p.id === id
\*                              ? { ...p, newResident: !p.newResident } : p))
NewFlagToggled(list, id) ==
  [i \in DOMAIN list |->
     IF list[i].id = id
     THEN [list[i] EXCEPT !.newResident = ~list[i].newResident]
     ELSE list[i]]

\* toggleResidentGreen(id): "Toggle green" of a roster row or of a card
ToggleResidentGreen(id) ==
  /\ ~crashed
  /\ adminMode
  /\ id \in Ids(people)
  /\ RenderPeople(GreenToggled(people, id), FALSE)
  /\ UNCHANGED <<portalVars, crashed, active, myGreen, adminMode, formVars, msgVars, envVars>>

\* toggleResidentNewFlag(id): 'Toggle "New"' of a card
ToggleResidentNewFlag(id) ==
  /\ ~crashed
  /\ adminMode
  /\ id \in Ids(filtered)
  /\ RenderPeople(NewFlagToggled(people, id), FALSE)
  /\ UNCHANGED <<portalVars, crashed, active, myGreen, adminMode, formVars, msgVars, envVars>>

\* removeResident(id): "Remove" of a card
RemoveResident(id) ==
  /\ ~crashed
  /\ adminMode
  /\ id \in Ids(filtered)
  /\ RenderPeople(SelectSeq(people, LAMBDA p : p.id # id), FALSE)
  /\ UNCHANGED <<portalVars, crashed, active, myGreen, adminMode, formVars, msgVars, envVars>>

\* resetResidents: setPeople(MOCK_RESIDENTS).  React drops a state update
\* to the value the state already is (Object.is): no render, no effect.
\* A reset that empties the directory.
ResetResidents_EmptiesDirectory ==
  /\ ~crashed
  /\ adminMode
  /\ RenderPeople(<<>>, FALSE)
  /\ UNCHANGED <<portalVars, crashed, active, myGreen, adminMode, formVars, msgVars, envVars>>

ResetResidents ==
  /\ ~crashed
  /\ adminMode
  /\ IF seedRef
     THEN UNCHANGED <<people, seedRef, filterVars, ls, openCount, newCount, filtered>>
     ELSE RenderPeople(MOCK_RESIDENTS, TRUE)
  /\ UNCHANGED <<portalVars, crashed, active, myGreen, adminMode, formVars, msgVars, envVars>>

\* "Set everyone to green"
SetEveryoneGreen ==
  /\ ~crashed
  /\ adminMode
  /\ RenderPeople([i \in DOMAIN people |-> [people[i] EXCEPT !.green = TRUE]], FALSE)
  /\ UNCHANGED <<portalVars, crashed, active, myGreen, adminMode, formVars, msgVars, envVars>>

\* "Pause all wristbands"
PauseAllWristbands ==
  /\ ~crashed
  /\ adminMode
  /\ RenderPeople([i \in DOMAIN people |-> [people[i] EXCEPT !.green = FALSE]], FALSE)
  /\ UNCHANGED <<portalVars, crashed, active, myGreen, adminMode, formVars, msgVars, envVars>>

\* Admin form onChange handlers
SetNewName(v) ==
  /\ ~crashed
  /\ adminMode
  /\ v # newName
  /\ newName' = v
  /\ UNCHANGED <<portalVars, crashed, people, seedRef, filterVars, active, myGreen, adminMode,
                 newBio, newGreen, newFlaggedNew, msgVars, envVars, ls,
                 openCount, newCount, filtered>>

SetNewBio(v) ==
  /\ ~crashed
  /\ adminMode
  /\ v # newBio
  /\ newBio' = v
  /\ UNCHANGED <<portalVars, crashed, people, seedRef, filterVars, active, myGreen, adminMode,
                 newName, newGreen, newFlaggedNew, msgVars, envVars, ls,
                 openCount, newCount, filtered>>

SetNewGreen ==
  /\ ~crashed
  /\ adminMode
  /\ newGreen' = ~newGreen
  /\ UNCHANGED <<portalVars, crashed, people, seedRef, filterVars, active, myGreen, adminMode,
                 newName, newBio, newFlaggedNew, msgVars, envVars, ls,
                 openCount, newCount, filtered>>

SetFlaggedNew ==
  /\ ~crashed
  /\ adminMode
  /\ newFlaggedNew' = ~newFlaggedNew
  /\ UNCHANGED <<portalVars, crashed, people, seedRef, filterVars, active, myGreen, adminMode,
                 newName, newBio, newGreen, msgVars, envVars, ls,
                 openCount, newCount, filtered>>

\* An addResident that leaves the form as it was filled in.
AddResident_KeepsForm(id) ==
  LET name == Trim(newName)
      bio == Trim(newBio)
  IN /\ ~crashed
     /\ adminMode
     /\ Cardinality({i \in DOMAIN people : people[i].id \in NewIds})
          + (Len(people) - Cardinality(Ids(people))) < MaxAdded
     /\ IF name = <<>> \/ bio = <<>>
        THEN UNCHANGED <<people, seedRef, filterVars, formVars, ls,
                         openCount, newCount, filtered>>
        ELSE /\ RenderPeople(Append(people,
                    [id |-> id, name |-> name, bio |-> bio,
                     green |-> newGreen, newResident |-> newFlaggedNew]), FALSE)
             /\ UNCHANGED formVars
     /\ UNCHANGED <<portalVars, crashed, active, myGreen, adminMode, msgVars, envVars>>

\* addResident with the id Math.random() yields
AddResident(id) ==
  LET name == Trim(newName)
      bio == Trim(newBio)
  IN /\ ~crashed
     /\ adminMode
     /\ Cardinality({i \in DOMAIN people : people[i].id \in NewIds})
          + (Len(people) - Cardinality(Ids(people))) < MaxAdded
     /\ IF name = <<>> \/ bio = <<>>
        THEN UNCHANGED <<people, seedRef, filterVars, formVars, ls,
                         openCount, newCount, filtered>>
        ELSE /\ RenderPeople(Append(people,
                    [id |-> id, name |-> name, bio |-> bio,
                     green |-> newGreen, newResident |-> newFlaggedNew]), FALSE)
             /\ newName' = <<>> /\ newBio' = <<>>
             /\ newGreen' = TRUE /\ newFlaggedNew' = TRUE
     /\ UNCHANGED <<portalVars, crashed, active, myGreen, adminMode, msgVars, envVars>>

\* --------------------------------------------------------------- messaging
AutoReplyText == "Thanks for reaching out! I'd love to connect."

\* The update that puts the message first: [msg, ...(prev[residentId] || [])]
AppendMessage_Prepends(prev, residentId, msg) ==
  (residentId :> (<<msg>> \o (IF residentId \in DOMAIN prev THEN prev[residentId]
                                                              ELSE <<>>))) @@ prev

\* The update that starts the thread anew: { ...prev, [residentId]: [msg] }
AppendMessage_Replaces(prev, residentId, msg) ==
  (residentId :> <<msg>>) @@ prev

\* An updater that works on a thread one update old, as a callback holding
\* the threads of an earlier render would.
AppendMessage_StaleThread(prev, residentId, msg) ==
  (residentId :>
     Append(IF residentId \in DOMAIN prev /\ prev[residentId] # <<>>
            THEN SubSeq(prev[residentId], 1, Len(prev[residentId]) - 1)
            ELSE <<>>, msg)) @@ prev

\* prev => ({ ...prev, [residentId]: [...(prev[residentId] || []), msg] })
AppendMessage(prev, residentId, msg) ==
  (residentId :> Append(IF residentId \in DOMAIN prev THEN prev[residentId] ELSE <<>>,
                        msg)) @@ prev

\* The thread the drawer shows: active ? (threads[active.id] || []) : []
ThreadOf(t, act) ==
  IF act = <<>> THEN <<>>
  ELSE IF act[1].id \in DOMAIN t THEN t[act[1].id] ELSE <<>>

\* A card of the directory or "Open card" of a roster row:
\* setActive(p); maybeAutoReply(p.id)
OpenCard(p) ==
  /\ ~crashed
  /\ p.id \in ClickIds
  /\ p \in Range(filtered) \/ (adminMode /\ p \in Range(people))
  /\ p.id \in replied \/ TotalMessages(threads) + Cardinality(timers) < MaxMsgs
  /\ active' = <<p>>
  /\ replied' = replied \cup {p.id}
  /\ timers' = IF p.id \in replied THEN timers ELSE timers \cup {p.id}
  /\ UNCHANGED <<portalVars, crashed, people, seedRef, filterVars, myGreen, adminMode, formVars,
                 threads, envVars, ls, openCount, newCount, filtered>>

\* onClose that also clears the pending timeouts.
CloseDrawer_ClearsTimeout ==
  /\ ~crashed
  /\ active # <<>>
  /\ active' = <<>>
  /\ timers' = {}
  /\ UNCHANGED <<portalVars, crashed, people, seedRef, filterVars, myGreen, adminMode, formVars,
                 threads, replied, envVars, ls, openCount, newCount, filtered>>

\* onClose of the drawer: setActive(null)
CloseDrawer ==
  /\ ~crashed
  /\ active # <<>>
  /\ active' = <<>>
  /\ UNCHANGED <<portalVars, crashed, people, seedRef, filterVars, myGreen, adminMode, formVars,
                 msgVars, envVars, ls, openCount, newCount, filtered>>

\* onSend of the drawer: active && send(active.id, text), and the
\* saveThreads effect
Send(text, mid) ==
  /\ ~crashed
  /\ active # <<>>
  /\ TotalMessages(threads) + Cardinality(timers) < MaxMsgs
  /\ threads' = AppendMessage(threads, active[1].id,
                   [id |-> mid, fromMe |-> TRUE, text |-> text, ts |-> now])
  /\ ls' = SaveThreads(ls, threads', lsMode)
  /\ UNCHANGED <<portalVars, crashed, people, seedRef, filterVars, active, myGreen, adminMode,
                 formVars, replied, timers, envVars, openCount, newCount, filtered>>

\* The timeout of maybeAutoReply fires, and the saveThreads effect
AutoReplyFires(residentId, mid) ==
  /\ residentId \in timers
  /\ timers' = timers \ {residentId}
  /\ threads' = AppendMessage(threads, residentId,
                   [id |-> mid, fromMe |-> FALSE, text |-> AutoReplyText, ts |-> now])
  /\ ls' = SaveThreads(ls, threads', lsMode)
  /\ UNCHANGED <<portalVars, crashed, people, seedRef, filterVars, active, myGreen, adminMode,
                 formVars, replied, envVars, openCount, newCount, filtered>>

\* ------------------------------------------------------------ admin portal
\* "Admin login demo": setAdminOpen(true)
OpenAdminPanel ==
  /\ ~adminOpen
  /\ adminOpen' = TRUE
  /\ UNCHANGED <<directoryVars, email, password, error, authed, watchVars>>

\* onClose of the portal: setAdminOpen(false).  AdminPanel stays mounted
\* and keeps its state.
CloseAdminPanel ==
  /\ adminOpen
  /\ adminOpen' = FALSE
  /\ UNCHANGED <<directoryVars, email, password, error, authed, watchVars>>

\* What AdminPanel renders: nothing while closed, the login form until
\* authed, the vitals dashboard after.
PanelView ==
  IF ~adminOpen THEN "none" ELSE IF ~authed THEN "login" ELSE "vitals"

\* "Email" onChange: setEmail(e.target.value)
SetEmail(v) ==
  /\ PanelView = "login"
  /\ v # email
  /\ email' = v
  /\ UNCHANGED <<directoryVars, adminOpen, password, error, authed, watchVars>>

\* "Password" onChange: setPassword(e.target.value)
SetPassword(v) ==
  /\ PanelView = "login"
  /\ v # password
  /\ password' = v
  /\ UNCHANGED <<directoryVars, adminOpen, email, error, authed, watchVars>>

\* The condition of authenticate.
CredentialsMatch(e, pw) ==
  ToLowerCase(Trim(e)) = AdminEmail /\ pw = AdminPassword

\* A sign-in that compares the email alone.
Authenticate_IgnoresPassword ==
  /\ PanelView = "login"
  /\ IF ToLowerCase(Trim(email)) = AdminEmail
     THEN authed' = TRUE /\ error' = ""
     ELSE error' = DemoError /\ UNCHANGED authed
  /\ UNCHANGED <<directoryVars, adminOpen, email, password, watchVars>>

\* "Sign in": authenticate
Authenticate ==
  /\ PanelView = "login"
  /\ IF CredentialsMatch(email, password)
     THEN authed' = TRUE /\ error' = ""
     ELSE error' = DemoError /\ UNCHANGED authed
  /\ UNCHANGED <<directoryVars, adminOpen, email, password, watchVars>>

\* --------------------------------------------------------------- telemetry
\* Steps are drawn while every counter is below MaxSteps.
StepsAllowed(d) ==
  d.st = 0 \/ \A w \in WatchIds : health[w].steps < MaxSteps

\* The setInterval callback, five seconds after the one before: every
\* watch's entry is recomputed.  The watches draw the same values d.
TelemetryTick(d) ==
  /\ wallClock < LoadTime + 5 * MaxTicks
  /\ StepsAllowed(d)
  /\ wallClock' = wallClock + 5
  /\ health' = [w \in WatchIds |-> TickSnapshot(health[w], d, wallClock')]
  /\ UNCHANGED <<directoryVars, loginVars>>

\* "Pull newest vitals": refreshHealth
RefreshHealth(d) ==
  /\ PanelView = "vitals"
  /\ StepsAllowed(d)
  /\ health' = [w \in WatchIds |-> RefreshSnapshot(health[w], d, wallClock)]
  /\ UNCHANGED <<directoryVars, loginVars, wallClock>>

\* ------------------------------------------------------------- environment
\* Time passes.
Tick ==
  /\ now < MaxNow
  /\ now' = now + 1
  /\ UNCHANGED <<portalVars, crashed, people, seedRef, filterVars, active, myGreen, adminMode,
                 formVars, msgVars, lsMode, ls, openCount, newCount, filtered>>

\* localStorage starts or stops throwing.
SetStorageMode(mode) ==
  /\ mode # lsMode
  /\ lsMode' = mode
  /\ UNCHANGED <<portalVars, crashed, people, seedRef, filterVars, active, myGreen, adminMode,
                 formVars, msgVars, now, ls, openCount, newCount, filtered>>

\* The page is reloaded: the component mounts again from localStorage;
\* pending timeouts and the refs of the old page are gone.
Reload ==
  \E m \in {MountState(ls, lsMode)} :
     /\ people' = m.people /\ seedRef' = m.seedRef
     /\ query' = <<>> /\ greenOnly' = TRUE /\ newOnly' = FALSE
     /\ active' = <<>>
     /\ myGreen' = m.myGreen
     /\ adminMode' = TRUE
     /\ newName' = <<>> /\ newBio' = <<>> /\ newGreen' = TRUE /\ newFlaggedNew' = TRUE
     /\ threads' = m.threads /\ replied' = {} /\ timers' = {}
     /\ ls' = m.ls
     /\ openCount' = m.openCount /\ newCount' = m.newCount
     /\ filtered' = m.filtered
     /\ crashed' = m.crashed
     /\ UNCHANGED <<envVars, portalVars>>

\* ---------------------------------------------------------- specifications
\* The search box and the two filter switches.
NextFilter ==
  \/ \E q \in Queries : SetQuery(q)
  \/ SetGreenOnly
  \/ SetNewOnly

\* The directory's roster: the admin console's actions on residents, and
\* the viewer's own wristband.
NextDirectory ==
  \/ ToggleMyGreen
  \/ \E id \in ClickIds : ToggleResidentGreen(id)
  \/ \E id \in ClickIds : ToggleResidentNewFlag(id)
  \/ \E id \in ClickIds : RemoveResident(id)
  \/ ResetResidents
  \/ SetEveryoneGreen
  \/ PauseAllWristbands
  \/ \E v \in NameInputs : SetNewName(v)
  \/ \E v \in BioInputs : SetNewBio(v)
  \/ \E id \in NewIds : AddResident(id)

\* The switches of the admin console.
NextSwitches ==
  \/ SetAdminMode
  \/ SetNewGreen
  \/ SetFlaggedNew

\* The drawer and the message store.
NextMessages ==
  \/ \E p \in Range(people) : OpenCard(p)
  \/ CloseDrawer
  \/ \E text \in Texts, mid \in MsgIds : Send(text, mid)
  \/ \E r \in ClickIds, mid \in MsgIds : AutoReplyFires(r, mid)

\* The clock, the storage and the browser's reload button.
NextEnvironment ==
  \/ Tick
  \/ \E mode \in StorageModes : SetStorageMode(mode)
  \/ Reload

\* The admin portal's login.
NextLogin ==
  \/ OpenAdminPanel
  \/ CloseAdminPanel
  \/ \E v \in EmailInputs : SetEmail(v)
  \/ \E v \in PasswordInputs : SetPassword(v)
  \/ Authenticate

\* The watches: the sign-in that shows the dashboard, the ticks of the
\* interval and the refresh button.
NextTelemetry ==
  \/ Authenticate
  \/ \E d \in TickDraws : TelemetryTick(d)
  \/ \E d \in RefreshDraws : RefreshHealth(d)

Next ==
  \/ NextFilter \/ NextDirectory \/ NextSwitches \/ NextMessages
  \/ NextEnvironment \/ NextLogin \/ NextTelemetry

SpecTelemetry ==
  InitWith({st \in VisitStores : ~st.people.present}, {"ok"})
    /\ [][NextTelemetry]_vars

\* The admin portal of the second page, from the page's first render.
SpecLogin ==
  InitWith({st \in VisitStores : ~st.people.present}, {"ok"})
    /\ [][NextLogin]_vars

Spec == Init /\ [][Next]_vars

\* The directory under its filters alone, on the directories of earlier
\* sessions.
SpecFilter == InitWith(FilterStores, {"ok"}) /\ [][NextFilter]_vars

\* The three slots of localStorage: handlers whose effects write them, a
\* storage that starts and stops throwing, and reloads that read them.
NextStorage ==
  \/ ToggleMyGreen
  \/ \E id \in ClickIds : RemoveResident(id)
  \/ \E p \in Range(people) : OpenCard(p)
  \/ \E text \in Texts : Send(text, "m1")
  \/ \E mode \in StorageModes : SetStorageMode(mode)
  \/ Reload

SpecStorage == Init /\ [][NextStorage]_vars

\* The admin console on a storage that works.
SpecDirectory == InitWith(InitialStores, {"ok"}) /\ [][NextDirectory]_vars

\* Start-up on any storage: the page is opened and reloaded, the storage
\* starts and stops throwing, and the handlers of a page that came up are
\* used.
NextStartup ==
  \/ Reload
  \/ \E mode \in StorageModes : SetStorageMode(mode)
  \/ ToggleMyGreen
  \/ \E id \in ClickIds : RemoveResident(id)

SpecStartup == InitWith(StartupStores, StorageModes) /\ [][NextStartup]_vars

\* One session of messaging: cards are opened and closed, messages are
\* sent, auto-replies arrive and the clock runs, while the console toggles
\* and removes residents and restores the seed roster.
NextThreads ==
  \/ \E p \in Range(people) : OpenCard(p)
  \/ CloseDrawer
  \/ \E text \in Texts : Send(text, "m1")
  \/ \E r \in ClickIds : AutoReplyFires(r, "m2")
  \/ Tick
  \/ \E id \in ClickIds : ToggleResidentGreen(id)
  \/ \E id \in ClickIds : RemoveResident(id)
  \/ ResetResidents

SpecThreads == InitWith(SessionStores, {"ok"}) /\ [][NextThreads]_vars

\* Messaging over several sessions: cards, drawer, sends and auto-replies,
\* and reloads of the page on a storage that works.
NextSessions ==
  \/ \E p \in Range(people) : OpenCard(p)
  \/ CloseDrawer
  \/ \E text \in Texts : Send(text, "m1")
  \/ \E r \in ClickIds : AutoReplyFires(r, "m2")
  \/ Reload

SpecSessions == InitWith(SessionStores, {"ok"}) /\ [][NextSessions]_vars

\* One session in which the browser runs every timeout that is due: a
\* pending auto-reply is not delayed for ever (setTimeout, 600 ms).
NextReplies ==
  \/ \E p \in Range(people) : OpenCard(p)
  \/ CloseDrawer
  \/ \E text \in Texts : Send(text, "m1")
  \/ \E r \in ClickIds : AutoReplyFires(r, "m2")
  \/ Tick

SpecReplies ==
  /\ InitWith(SessionStores, {"ok"})
  /\ [][NextReplies]_vars
  /\ \A r \in ClickIds : WF_vars(AutoReplyFires(r, "m2"))

\* The ids of the directory: residents are added under the ids
\* Math.random() may yield, removed and toggled, and the seed roster is
\* restored.
NextIds ==
  \/ \E v \in NameInputs : SetNewName(v)
  \/ \E v \in BioInputs : SetNewBio(v)
  \/ \E id \in DrawnIds : AddResident(id)
  \/ \E id \in DrawnIds : RemoveResident(id)
  \/ \E id \in DrawnIds : ToggleResidentGreen(id)
  \/ \E id \in DrawnIds : ToggleResidentNewFlag(id)
  \/ SetEveryoneGreen
  \/ PauseAllWristbands
  \/ ResetResidents

SpecIds ==
  InitWith({st \in VisitStores : ~st.people.present}, {"ok"}) /\ [][NextIds]_vars

\* A refresh of the page on a storage that works: the roster is changed
\* from the admin console, the viewer's wristband is toggled, messages are
\* sent and answered, and the page is reloaded.
NextRefresh ==
  \/ \E v \in NameInputs : SetNewName(v)
  \/ \E v \in BioInputs : SetNewBio(v)
  \/ AddResident("b")
  \/ \E id \in NewIds : RemoveResident(id)
  \/ ToggleResidentGreen("b")
  \/ PauseAllWristbands
  \/ ToggleMyGreen
  \/ \E p \in Range(people) : p.id = "b" /\ OpenCard(p)
  \/ \E text \in Texts : Send(text, "m1")
  \/ AutoReplyFires("b", "m2")
  \/ Reload

SpecRefresh ==
  InitWith({st \in SessionStores : LoadMyStatus(st, "ok")}, {"ok"})
    /\ [][NextRefresh]_vars

\* "Reset to seed" among the other uses of the page: the filters are set,
\* the viewer's wristband is toggled, residents are toggled and removed,
\* and the roster is reset.
NextReset ==
  \/ \E q \in Queries : SetQuery(q)
  \/ SetGreenOnly
  \/ SetNewOnly
  \/ ToggleMyGreen
  \/ \E id \in ClickIds : ToggleResidentGreen(id)
  \/ \E id \in ClickIds : RemoveResident(id)
  \/ ResetResidents

SpecReset == InitWith(VisitStores, {"ok"}) /\ [][NextReset]_vars

\* The summary figures of the dashboard: the directory is filtered, its
\* residents are toggled and removed down to none, and the roster is reset.
NextSummary ==
  \/ \E q \in Queries : SetQuery(q)
  \/ SetGreenOnly
  \/ SetNewOnly
  \/ \E id \in ClickIds : ToggleResidentGreen(id)
  \/ \E id \in ClickIds : ToggleResidentNewFlag(id)
  \/ \E id \in ClickIds : RemoveResident(id)
  \/ ResetResidents

SpecSummary == InitWith(VisitStores, {"ok"}) /\ [][NextSummary]_vars

\* The admin form: its fields are typed into (texts of white space too),
\* its switches are set, residents are added and removed.
NextForm ==
  \/ \E v \in NameInputs \cup BlankInputs : SetNewName(v)
  \/ \E v \in BioInputs \cup BlankInputs : SetNewBio(v)
  \/ SetNewGreen
  \/ SetFlaggedNew
  \/ \E id \in NewIds : AddResident(id)
  \/ \E id \in NewIds : RemoveResident(id)

SpecForm ==
  InitWith({st \in VisitStores : ~st.people.present}, {"ok"})
    /\ [][NextForm]_vars

\* What is shown while time passes and messages come and go: the filters,
\* a wristband toggled in the console, the clock, the drawer and the
\* message store.
NextDeterminism ==
  \/ NextFilter
  \/ \E id \in ClickIds : ToggleResidentGreen(id)
  \/ \E p \in Range(people) : OpenCard(p)
  \/ \E text \in Texts : Send(text, "m1")
  \/ \E r \in ClickIds : AutoReplyFires(r, "m2")
  \/ Tick

SpecDeterminism == InitWith(VisitStores, {"ok"}) /\ [][NextDeterminism]_vars

\* ------------------------------------------------------------------ claims
\* How often r occurs in seq.
Count(seq, r) == Cardinality({i \in DOMAIN seq : seq[i] = r})

\* s contains q when both are lower-cased.
ContainsIgnoringCase(s, q) ==
  \E i \in 1..(Len(s) + 1) : \E j \in (i - 1)..Len(s) :
    ToLowerCase(SubSeq(s, i, j)) = ToLowerCase(q)

\* r passes the two switches.
PassesSwitches(r) ==
  /\ greenOnly => r.green
  /\ newOnly => r.newResident

\* r passes the search box: the query, without the white space around it,
\* is empty or occurs in r's name or bio, whatever the case of the letters.
PassesQuery(r) ==
  \/ Trim(query) = <<>>
  \/ ContainsIgnoringCase(r.name, Trim(query))
  \/ ContainsIgnoringCase(r.bio, Trim(query))

\* C1: filtered holds exactly the residents of people that pass every
\* active filter (green when greenOnly, newResident when newOnly, the query
\* when one is given), each as often as people holds it, and nothing else.
C1_FilteredIsExactlyTheMatches ==
  \A r \in Range(people) \cup Range(filtered) :
    Count(filtered, r) =
      IF PassesSwitches(r) /\ PassesQuery(r) THEN Count(people, r) ELSE 0

\* C1 witness: all three filters are active, some residents are shown and
\* some are held back.
C1_Witness ==
  /\ greenOnly /\ newOnly /\ Trim(query) # <<>>
  /\ filtered # <<>>
  /\ Len(filtered) < Len(people)

\* C2: of two residents of filtered the earlier one is the green one when
\* their green flags differ, else the new one when their newResident flags
\* differ, else the one whose name is not behind the other's in the order
\* of the names.
C2_FilteredIsOrdered ==
  \A i \in DOMAIN filtered : \A j \in DOMAIN filtered :
    i < j =>
      LET a == filtered[i]
          b == filtered[j]
      IN IF a.green # b.green THEN a.green
         ELSE IF a.newResident # b.newResident THEN a.newResident
         ELSE LocaleCompare(a.name, b.name) <= 0

\* C2 witness: the list shows a pair ordered by the green flag, a pair
\* ordered by the newResident flag and a pair ordered by name.
C2_Witness ==
  /\ \E i, j \in DOMAIN filtered : i < j /\ filtered[i].green # filtered[j].green
  /\ \E i, j \in DOMAIN filtered :
       /\ i < j /\ filtered[i].green = filtered[j].green
       /\ filtered[i].newResident # filtered[j].newResident
  /\ \E i, j \in DOMAIN filtered :
       /\ i < j /\ filtered[i].green = filtered[j].green
       /\ filtered[i].newResident = filtered[j].newResident
       /\ filtered[i].name # filtered[j].name

\* C3 as stated: for every non-empty query a resident that passes the
\* switches is shown if and only if its name or bio contains the query
\* string itself, whatever the case of the letters; an empty query shows
\* every resident that passes the switches.
C3_AsStated ==
  \A r \in Range(people) :
    PassesSwitches(r) =>
      ( r \in Range(filtered) <=>
          \/ query = <<>>
          \/ ContainsIgnoringCase(r.name, query)
          \/ ContainsIgnoringCase(r.bio, query) )

\* C3 amended: the query is matched without the white space around it: a
\* resident that passes the switches is shown if and only if the trimmed
\* query is empty or its name or bio contains the trimmed query, whatever
\* the case of the letters.
C3_TrimmedQueryDecides ==
  \A r \in Range(people) :
    PassesSwitches(r) => (r \in Range(filtered) <=> PassesQuery(r))

\* C3 witness: a query with white space around it shows some residents
\* and hides others.
C3_Witness ==
  /\ query # Trim(query) /\ Trim(query) # <<>>
  /\ ~greenOnly /\ ~newOnly
  /\ filtered # <<>>
  /\ Len(filtered) < Len(people)

\* C4: residents of filtered with the same green flag, the same
\* newResident flag and the same name stand in the order in which people
\* holds them.
C4_SortIsStable ==
  \A r \in Range(filtered) :
    LET Same(p) == /\ p.green = r.green
                   /\ p.newResident = r.newResident
                   /\ p.name = r.name
        Shown(p) == Same(p) /\ p \in Range(filtered)
    IN SelectSeq(filtered, Same) = SelectSeq(people, Shown)

\* C4 witness: two different residents with equal flags and names are
\* shown, and a resident that sorts before them stands behind them in
\* people.
C4_Witness ==
  /\ \E i, j \in DOMAIN filtered :
       /\ i < j
       /\ filtered[i] # filtered[j]
       /\ filtered[i].green = filtered[j].green
       /\ filtered[i].newResident = filtered[j].newResident
       /\ filtered[i].name = filtered[j].name
  /\ ~greenOnly
  /\ filtered # people

C6_FilteredHasNoSideEffects ==
  [][ NextFilter =>
        /\ people' = people /\ seedRef' = seedRef
        /\ myGreen' = myGreen
        /\ threads' = threads
        /\ ls' = ls
        /\ \/ query' \in Queries /\ greenOnly' = greenOnly /\ newOnly' = newOnly
           \/ query' = query /\ greenOnly' = ~greenOnly /\ newOnly' = newOnly
           \/ query' = query /\ greenOnly' = greenOnly /\ newOnly' = ~newOnly
        /\ DOMAIN filtered' = 1..Len(filtered')
        /\ Range(filtered') \subseteq Range(people') ]_vars

\* C6 witness: the memo was recomputed for a query and shows residents in
\* another order than people holds them.
C6_Witness ==
  /\ query # <<>>
  /\ Len(filtered) > 1
  /\ filtered # SelectSeq(people, LAMBDA p : p \in Range(filtered))

\* C7: openCount is the number of residents of people with green = TRUE
\* (the viewer's own myGreen is not counted), newCount the number with
\* newResident = TRUE, and toggleMyGreen changes neither.
C7_CountsMatchDirectory ==
  /\ [](/\ openCount = Cardinality({i \in DOMAIN people : people[i].green})
        /\ newCount = Cardinality({i \in DOMAIN people : people[i].newResident}))
  /\ [][ myGreen' # myGreen =>
           openCount' = openCount /\ newCount' = newCount ]_vars

\* C7 witness: the viewer is open, the directory was changed, and it holds
\* open and closed, new and established residents.
C7_Witness ==
  /\ myGreen
  /\ ~seedRef /\ people # PrevRoster
  /\ 0 < openCount /\ openCount < Len(people)
  /\ 0 < newCount /\ newCount < Len(people)
  /\ openCount # newCount

\* C8: openCount and newCount lie between 0 and the number of residents.
C8_CountsWithinDirectory ==
  /\ 0 <= openCount /\ openCount <= Len(people)
  /\ 0 <= newCount /\ newCount <= Len(people)

\* C8 witness: after an add and "Set everyone to green" every resident of
\* a directory larger than the seed roster is open.
C8_Witness ==
  /\ Len(people) > Len(MOCK_RESIDENTS)
  /\ openCount = Len(people)
  /\ newCount < Len(people)

\* C9: what a save writes into a slot, the load of that slot reads back:
\* the directory (the empty one too), the viewer's status (on and off) and
\* the thread map (the empty one too).
C9_SaveThenLoadRoundTrips ==
  /\ \A L \in {people, <<>>, PrevRoster} :
       LoadPeople(SavePeople(ls, L, "ok"), "ok") = L
  /\ \A b \in BOOLEAN :
       LoadMyStatus(SaveMyStatus(ls, b, "ok"), "ok") = b
  /\ \A T \in {threads, EmptyMap, PrevThreads} :
       LoadThreads(SaveThreads(ls, T, "ok"), "ok") = T

\* C9 witness: the empty directory (every resident removed), the status
\* "off" and a thread are in memory, and the slots hold what the saves wrote.
C9_Witness ==
  /\ people = <<>>
  /\ ~myGreen
  /\ threads # EmptyMap
  /\ ls = [people |-> TextSlot(StringifyPeople(people)),
           mystatus |-> TextSlot(StringifyStatus(myGreen)),
           threads |-> TextSlot(StringifyThreads(threads))]

\* A slot the loaders cannot use: absent, or a text JSON.parse rejects.
SlotUnusable(slot) == ~slot.present \/ ~JsonParse(slot.text).ok

\* C10: a reload that finds a slot absent, unreadable or undecodable puts
\* the default in its place: the seed roster MOCK_RESIDENTS for the
\* directory, TRUE for the viewer's status, the empty map for the threads.
C10_LoadersFallBackToDefaults ==
  [][ Reload =>
        /\ (lsMode = "denied" \/ SlotUnusable(ls.people))
             => people' = MOCK_RESIDENTS
        /\ (lsMode = "denied" \/ SlotUnusable(ls.mystatus))
             => myGreen' = TRUE
        /\ (lsMode = "denied" \/ SlotUnusable(ls.threads))
             => threads' = EmptyMap ]_vars

\* C10 witness: the three slots hold text that does not decode and the
\* page shows the seed roster, the status "on" and no thread.
C10_Witness ==
  /\ ls.people = TextSlot(Malformed)
  /\ ls.mystatus = TextSlot(Malformed)
  /\ ls.threads = TextSlot(Malformed)
  /\ people = MOCK_RESIDENTS /\ myGreen /\ threads = EmptyMap

\* C11: whatever the three slots hold (nothing, text that does not decode,
\* text that decodes to null, a number or an object), the page comes up:
\* people is a list of residents, myGreen a boolean, threads a map from ids
\* to lists of messages, and the counts and filtered are computed from them.
C11_NoStoredContentIsFatal ==
  /\ ~crashed
  /\ myGreen \in BOOLEAN
  /\ DOMAIN people = 1..Len(people)
  /\ \A r \in DOMAIN threads : DOMAIN threads[r] = 1..Len(threads[r])
  /\ openCount = OpenCountOf(people) /\ newCount = NewCountOf(people)
  /\ filtered = FilteredOf(people, query, greenOnly, newOnly)

\* C12: while setItem throws, a handler's save is silent: the page stays
\* up, the slots keep what they held, people, myGreen and threads are what
\* the handler made them, and the handlers stay enabled.
C12_FailedWriteIsSilent ==
  /\ [](lsMode # "ok" /\ ~crashed =>
          /\ ENABLED ToggleMyGreen
          /\ \A id \in ClickIds :
               adminMode /\ id \in Ids(filtered) => ENABLED RemoveResident(id)
          /\ (active # <<>> /\ TotalMessages(threads) + Cardinality(timers) < MaxMsgs)
               => ENABLED Send("hi", "m1"))
  /\ [][ (lsMode # "ok" /\ lsMode' = lsMode) =>
          /\ ls' = ls
          /\ crashed' = crashed
          /\ ToggleMyGreen => myGreen' = ~myGreen
          /\ \A id \in ClickIds :
               RemoveResident(id) =>
                 people' = SelectSeq(people, LAMBDA p : p.id # id)
          /\ \A text \in Texts, mid \in MsgIds :
               Send(text, mid) =>
                 /\ Len(threads'[active[1].id]) = 1 +
                      (IF active[1].id \in DOMAIN threads
                       THEN Len(threads[active[1].id]) ELSE 0)
                 /\ threads'[active[1].id][Len(threads'[active[1].id])].text = text ]_vars

\* C12 witness: setItem throws, and the viewer's status and the directory
\* in memory are no longer the ones in the slots.
C12_Witness ==
  /\ lsMode = "full"
  /\ myGreen # LoadMyStatus(ls, "ok")
  /\ people # LoadPeople(ls, "ok")

C14_ThreadOnlyAfterSend ==
  \A r \in DOMAIN threads : \E i \in DOMAIN threads[r] : threads[r][i].fromMe

\* C15: a send to the resident r of the open drawer puts one message of
\* the viewer's own with the given text behind the messages r's thread held
\* (behind none when r had no thread), and leaves every other thread as it
\* was; the thread shown for a resident without one is empty.
C15_SendAppendsOneMessage ==
  /\ [][ \A text \in Texts, mid \in MsgIds :
           Send(text, mid) =>
             LET r == active[1].id
                 old == IF r \in DOMAIN threads THEN threads[r] ELSE <<>>
             IN /\ DOMAIN threads' = DOMAIN threads \cup {r}
                /\ Len(threads'[r]) = Len(old) + 1
                /\ SubSeq(threads'[r], 1, Len(old)) = old
                /\ threads'[r][Len(old) + 1].fromMe
                /\ threads'[r][Len(old) + 1].text = text
                /\ \A o \in DOMAIN threads \ {r} : threads'[o] = threads[o] ]_vars
  /\ []((active # <<>> /\ active[1].id \notin DOMAIN threads)
          => ThreadOf(threads, active) = <<>>)

\* C15 witness: a send has opened a thread for one resident while the
\* thread of another one is there, as long as it was.
C15_Witness ==
  /\ active # <<>>
  /\ Len(ThreadOf(threads, active)) = 1
  /\ ThreadOf(threads, active)[1].fromMe
  /\ \E o \in DOMAIN threads \cap DOMAIN PrevThreads :
       o # active[1].id /\ threads[o] = PrevThreads[o]

\* C16: no thread holds more than one auto-reply (a message with
\* fromMe = FALSE), whatever cards are opened, drawers closed, messages
\* sent and pages reloaded.
C16_OneAutoReplyPerThread ==
  \A r \in DOMAIN threads :
    Cardinality({i \in DOMAIN threads[r] : ~threads[r][i].fromMe}) <= 1

\* The auto-replies in r's thread.
Replies(t, r) ==
  IF r \in DOMAIN t THEN Cardinality({i \in DOMAIN t[r] : ~t[r][i].fromMe}) ELSE 0

\* C17: once a card was opened for the first time in a session, its
\* auto-reply arrives, whether the drawer stays open, is closed or shows
\* another resident; it arrives once: the timeout that fires adds one
\* received message to that thread, nothing else adds one, and the timeout
\* is not set a second time.
C17_AutoReplyArrivesOnce ==
  /\ \A r \in ClickIds :
       (r \in timers) ~> (r \notin timers /\ Replies(threads, r) > 0)
  /\ [][ \A r \in ClickIds :
           /\ (r \in timers /\ r \notin timers')
                => Replies(threads', r) = Replies(threads, r) + 1
           /\ (r \notin timers \/ r \in timers')
                => Replies(threads', r) = Replies(threads, r)
           /\ r \in replied => (r \in replied' /\ (r \in timers' => r \in timers)) ]_vars

\* C17 witness: the auto-reply of a resident has arrived while the drawer
\* shows another resident whose auto-reply is still due.
C17_Witness ==
  \E r \in ClickIds :
    /\ Replies(threads, r) = 1
    /\ r \in replied /\ r \notin timers
    /\ active # <<>> /\ active[1].id # r
    /\ active[1].id \in timers

\* C18: no two residents of people have the same id, whatever ids
\* addResident draws.
C18_IdsAreUnique == Cardinality(Ids(people)) = Len(people)

\* The list differs from the earlier one in nothing but the named flag of
\* the residents with the id.
OnlyFlagDiffers(before, after, id, flag) ==
  /\ Len(after) = Len(before)
  /\ \A i \in DOMAIN before :
       /\ after[i].id = before[i].id
       /\ after[i].name = before[i].name
       /\ after[i].bio = before[i].bio
       /\ before[i].id # id => after[i] = before[i]
       /\ before[i].id = id =>
            /\ flag = "green" =>
                 /\ after[i].green = ~before[i].green
                 /\ after[i].newResident = before[i].newResident
            /\ flag = "newResident" =>
                 /\ after[i].newResident = ~before[i].newResident
                 /\ after[i].green = before[i].green

\* C19: toggleResidentGreen(id) changes the green flag and
\* toggleResidentNewFlag(id) the newResident flag of the residents with
\* that id and nothing else of people (ids, names, bios, the other flag,
\* the other residents, order and length stay), and the same toggle
\* applied once more gives back the people of before.
C19_ToggleChangesOnlyItsFlag ==
  [][\A id \in DrawnIds :
       /\ ToggleResidentGreen(id) =>
            /\ OnlyFlagDiffers(people, people', id, "green")
            /\ GreenToggled(people', id) = people
       /\ ToggleResidentNewFlag(id) =>
            /\ OnlyFlagDiffers(people, people', id, "newResident")
            /\ NewFlagToggled(people', id) = people]_vars

\* Both residents with the id "9", the seed's and the added one, have
\* had their newResident flag toggled, and the seed's differs from the
\* seed roster in that flag alone, next to residents that were left alone.
C19_Witness ==
  /\ Len(people) = Len(MOCK_RESIDENTS) + 1
  /\ people[9].id = "9" /\ people[Len(people)].id = "9"
  /\ people[9] = [MOCK_RESIDENTS[9] EXCEPT !.newResident = ~MOCK_RESIDENTS[9].newResident]
  /\ ~people[Len(people)].newResident
  /\ \A i \in DOMAIN MOCK_RESIDENTS : i # 9 => people[i] = MOCK_RESIDENTS[i]

\* C20: on a storage whose writes succeed, a reload of the page brings
\* back the people, the myGreen and the threads the page had before it.
C20_RefreshKeepsState ==
  [][Reload => /\ people' = people
               /\ myGreen' = myGreen
               /\ threads' = threads]_vars

\* C20 witness: the page has been reloaded after an auto-reply arrived
\* (the reply is in a thread, the once-only flags are empty again), and it
\* shows a directory that was emptied, refilled by the admin form and
\* toggled, with the viewer's wristband off.
C20_Witness ==
  /\ replied = {} /\ active = <<>>
  /\ \E r \in DOMAIN threads : \E i \in DOMAIN threads[r] : ~threads[r][i].fromMe
  /\ Len(people) = 1
  /\ people[1].id = "b" /\ people[1].bio = <<"t","e","a">> /\ ~people[1].green
  /\ ~myGreen

\* C21: resetResidents makes people the seed roster MOCK_RESIDENTS, twelve
\* residents with the seed's flags in the seed's order, and leaves threads,
\* myGreen and the filters as they are; the filter switches, the search box
\* and the viewer's toggle leave the roster as the earlier changes made it.
C21_ResetRestoresSeedRoster ==
  /\ [](seedRef => people = MOCK_RESIDENTS)
  /\ [][ /\ ResetResidents =>
              /\ people' = MOCK_RESIDENTS
              /\ Len(people') = 12
              /\ UNCHANGED <<threads, myGreen, query, greenOnly, newOnly>>
         /\ (SetGreenOnly \/ SetNewOnly \/ ToggleMyGreen
               \/ \E q \in Queries : SetQuery(q)) => people' = people ]_vars

\* C21 witness: the seed roster is back after a reset (the slot holds what
\* savePeople wrote, the directory is the seed array again) on a page that
\* started with a stored directory, with stored threads, the viewer's
\* wristband on and the filters changed.
C21_Witness ==
  /\ people = MOCK_RESIDENTS /\ seedRef
  /\ threads = PrevThreads
  /\ myGreen
  /\ ~greenOnly /\ newOnly /\ query # <<>>

\* C22: with an empty directory the shown list is empty whatever the
\* filters are, openCount and newCount are 0 and greenPct and newPct are 0;
\* with any other directory greenPct and newPct are whole numbers from 0 to
\* 100.
C22_EmptyDirectoryShowsZeros ==
  /\ people = <<>> =>
       /\ filtered = <<>>
       /\ \A q \in Queries, g \in BOOLEAN, n \in BOOLEAN :
            FilteredOf(people, q, g, n) = <<>>
       /\ openCount = 0 /\ newCount = 0
       /\ greenPct = 0 /\ newPct = 0
  /\ people # <<>> => greenPct \in 0..100 /\ newPct \in 0..100

\* C22 witness: every resident has been removed while the filters were not
\* the initial ones.
C22_Witness ==
  /\ people = <<>>
  /\ ~seedRef
  /\ newOnly /\ ~greenOnly /\ query # <<>>

\* C23: each account of the README's "Demo login accounts" is accepted by
\* the sign-in: with its email and password in the fields, authenticate
\* signs the user in.
C23_ReadmeAccountsSignIn ==
  [][\A a \in ReadmeAccounts :
       (email = a.email /\ password = a.password /\ Authenticate) => authed']_vars

C24_NoLostUpdate ==
  [][\A r \in ClickIds :
       LET sent == /\ active # <<>>
                   /\ active[1].id = r
                   /\ \E text \in Texts : Send(text, "m1")
           fired == AutoReplyFires(r, "m2")
       IN /\ sent =>
               /\ \E text \in Texts :
                    ThreadOf(threads', <<[id |-> r]>>) =
                      Append(ThreadOf(threads, <<[id |-> r]>>),
                             [id |-> "m1", fromMe |-> TRUE, text |-> text, ts |-> now])
               /\ (r \in timers') = (r \in timers)
          /\ fired =>
               /\ ThreadOf(threads', <<[id |-> r]>>) =
                    Append(ThreadOf(threads, <<[id |-> r]>>),
                           [id |-> "m2", fromMe |-> FALSE, text |-> AutoReplyText,
                            ts |-> now])
               /\ r \notin timers'
          /\ (~sent /\ ~fired) =>
               ThreadOf(threads', <<[id |-> r]>>) = ThreadOf(threads, <<[id |-> r]>>)]_vars

\* C24 witness: a thread holds a message sent while the reply was pending,
\* then the reply, then a message sent after it.
C24_Witness ==
  \E r \in DOMAIN threads :
    /\ Len(threads[r]) = 3
    /\ threads[r][1].fromMe /\ ~threads[r][2].fromMe /\ threads[r][3].fromMe
    /\ r \in replied /\ r \notin timers

\* C25: addResident with a name or a bio that trims to nothing changes
\* neither people nor the form; otherwise it puts one resident at the end of
\* people, with the trimmed name and bio and the form's two flags, leaves
\* the residents before it as they were and in their order, and resets the
\* form to empty name, empty bio, green on, new on.
C25_AddResidentAppendsOrRefuses ==
  [][\A id \in NewIds :
       AddResident(id) =>
         IF Trim(newName) = <<>> \/ Trim(newBio) = <<>>
         THEN people' = people /\ UNCHANGED <<newName, newBio, newGreen, newFlaggedNew>>
         ELSE /\ Len(people') = Len(people) + 1
              /\ SubSeq(people', 1, Len(people)) = people
              /\ people'[Len(people')] =
                   [id |-> id, name |-> Trim(newName), bio |-> Trim(newBio),
                    green |-> newGreen, newResident |-> newFlaggedNew]
              /\ newName' = <<>> /\ newBio' = <<>>
              /\ newGreen' /\ newFlaggedNew']_vars

\* C25 witness: the seed roster is followed by a resident added from a form
\* whose texts had white space around them and whose two switches were off,
\* and the form is empty again with both switches on.
C25_Witness ==
  /\ Len(people) = Len(MOCK_RESIDENTS) + 1
  /\ SubSeq(people, 1, Len(MOCK_RESIDENTS)) = MOCK_RESIDENTS
  /\ people[Len(people)].name = <<"A","l">>
  /\ people[Len(people)].bio = <<"t","e","a">>
  /\ ~people[Len(people)].green /\ ~people[Len(people)].newResident
  /\ newName = <<>> /\ newBio = <<>> /\ newGreen /\ newFlaggedNew

\* C27: from MOCK_HEALTH on, whatever ticks and refreshes happen, every
\* watch has a heart rate from 58 to 96, an SpO2 from 94 to 100 and a
\* battery of at least 5, and no step lowers a step count or raises a
\* battery.
C27_VitalsStayInRange ==
  /\ [](\A w \in WatchIds :
          /\ 58 * VitalUnit <= health[w].heartRate
          /\ health[w].heartRate <= 96 * VitalUnit
          /\ 94 * VitalUnit <= health[w].spo2
          /\ health[w].spo2 <= 100 * VitalUnit
          /\ health[w].battery >= 5 * BatteryUnit)
  /\ [][\A w \in WatchIds :
          /\ health'[w].battery <= health[w].battery
          /\ health'[w].steps >= health[w].steps]_vars

\* C27 witness: after ticks and refreshes a battery is down at 5, a heart
\* rate up at 96 and an SpO2 at 100, and steps were counted.
C27_Witness ==
  /\ wallClock > LoadTime
  /\ \E w \in WatchIds : health[w].battery = 5 * BatteryUnit
  /\ \E w \in WatchIds : health[w].heartRate = 96 * VitalUnit
  /\ \E w \in WatchIds : health[w].spo2 = 100 * VitalUnit
  /\ \E w \in WatchIds : health[w].steps > MOCK_HEALTH[w].steps

\* C28: no step brings an offline watch back online; a tick takes an online
\* watch offline exactly when its battery before the tick is at most 8; a
\* tick leaves the steps of an offline watch as they are.
C28_OfflineStaysOffline ==
  [][/\ \A w \in WatchIds : ~health[w].watchOnline => ~health'[w].watchOnline
     /\ (\E d \in TickDraws : TelemetryTick(d)) =>
          \A w \in WatchIds :
            /\ (health[w].watchOnline /\ ~health'[w].watchOnline)
                 <=> (health[w].watchOnline /\ health[w].battery <= 8 * BatteryUnit)
            /\ ~health[w].watchOnline => health'[w].steps = health[w].steps]_vars

\* C28 witness: watch "2", online in MOCK_HEALTH, is offline while watch
\* "1" is still online.
C28_Witness ==
  /\ ~health["2"].watchOnline
  /\ health["1"].watchOnline

\* C29: no watch has a lastSync later than the current time, and a tick
\* does not lower the age formatSyncTime shows for an offline watch.
C29_LastSyncNotInFuture ==
  /\ [](\A w \in WatchIds : health[w].lastSync <= wallClock)
  /\ [][(\E d \in TickDraws : TelemetryTick(d)) =>
          \A w \in WatchIds :
            ~health[w].watchOnline =>
              SyncAgeShown(health'[w].lastSync, wallClock')
                >= SyncAgeShown(health[w].lastSync, wallClock)]_vars

\* The sum of the "msgs" cells of the roster's rows.
RECURSIVE RosterMessages(_)
RosterMessages(list) ==
  IF list = <<>> THEN 0
  ELSE msgCount(list[1]) + RosterMessages(SubSeq(list, 2, Len(list)))

\* C30: the thread figures are about the residents of the directory:
\* threadsCount is the number of residents of people that have a thread, and
\* totalMessages is the sum of the message counts of the roster's rows.
C30_ThreadFiguresMatchDirectory ==
  /\ threadsCount = Cardinality({i \in DOMAIN people : people[i].id \in DOMAIN threads})
  /\ totalMessages = RosterMessages(people)

====
